---- MODULE Spec2Model ----
(***************************************************************************)
(* Model of the confluence-search command line client: the `search`        *)
(* command (src/unnamed/part_000, the CLI entry point), the configuration  *)
(* provider (src/unnamed/part_001) and the search pipeline                 *)
(* searchConfluence (src/src/commands/search.ts).                          *)
(*                                                                         *)
(* Text the code operates on (phrase, --limit option, base URL, titles) is *)
(* a sequence of one-character strings; text that is only printed is a     *)
(* TLA+ string.  An optional value (an unset environment variable, an      *)
(* absent JSON field) is the empty set, a present value v is {v}.          *)
(***************************************************************************)
EXTENDS Integers, Sequences, FiniteSets, TLC

(***************************************************************************)
(* Bounds of the model.                                                    *)
(***************************************************************************)
\* longest results array of a response body
MaxResults == 2

(***************************************************************************)
(* Optional values and JavaScript truthiness.                              *)
(***************************************************************************)
Unset == {}

Some(v) == {v}

Get(o) == CHOOSE v \in o : TRUE

\* `x || d` for an optional text: d when x is undefined or the empty text
\* o ?? d: only an absent value takes the default
OrElseNullish(o, empty, d) == IF o = Unset THEN d ELSE Get(o)

OrElse(o, empty, d) == IF o = Unset \/ o = Some(empty) THEN d ELSE Get(o)

\* truthiness of an optional text
Truthy(o, empty) == o # Unset /\ o # Some(empty)

(***************************************************************************)
(* Number <-> text conversions of the JavaScript runtime.                  *)
(***************************************************************************)
Digits == <<"0", "1", "2", "3", "4", "5", "6", "7", "8", "9">>

IsDigit(c) == \E i \in 1..10 : Digits[i] = c

DigitVal(c) == (CHOOSE i \in 1..10 : Digits[i] = c) - 1

RECURSIVE SkipWs(_)
SkipWs(s) == IF s # <<>> /\ Head(s) = " " THEN SkipWs(Tail(s)) ELSE s

RECURSIVE ParseDigits(_, _, _)
ParseDigits(s, acc, seen) ==
  IF s # <<>> /\ IsDigit(Head(s))
    THEN ParseDigits(Tail(s), acc * 10 + DigitVal(Head(s)), TRUE)
    ELSE [seen |-> seen, val |-> acc]

\* parseInt(text): leading blanks skipped, optional sign, the longest prefix
\* of decimal digits; NaN when there is no digit
parseInt(s) ==
  LET t == SkipWs(s)
      neg == t # <<>> /\ Head(t) = "-"
      u == IF t # <<>> /\ Head(t) \in {"-", "+"} THEN Tail(t) ELSE t
      r == ParseDigits(u, 0, FALSE)
  IN IF r.seen
       THEN [nan |-> FALSE, val |-> IF neg THEN 0 - r.val ELSE r.val]
       ELSE [nan |-> TRUE, val |-> 0]

RECURSIVE NatToString(_)
NatToString(n) ==
  IF n < 10 THEN <<Digits[n + 1]>>
  ELSE NatToString(n \div 10) \o <<Digits[(n % 10) + 1]>>

\* Number.prototype.toString() of an integer
NumberToString(n) == IF n < 0 THEN <<"-">> \o NatToString(0 - n) ELSE NatToString(n)

(***************************************************************************)
(* Inputs of one invocation: the process environment, the command line and *)
(* what the wiki service answers.                                          *)
(***************************************************************************)
\* values of ATLASSIAN_API_TOKEN and of ATLASSIAN_EMAIL: unset, empty, set
TokenValues == {Unset, Some(""), Some("s3cret")}

EmailValues == {Unset, Some(""), Some("ann@example.com")}

\* values of ATLASSIAN_URL: unset, empty, absolute, absolute with a trailing
\* slash, and a text that is not an absolute URL
UrlValues ==
  { Unset, Some(<<>>),
    Some(<<"https://", "wiki.example">>),
    Some(<<"https://", "wiki.example", "/">>),
    Some(<<"wiki.example">>) }

Environments ==
  [ATLASSIAN_API_TOKEN : TokenValues, ATLASSIAN_EMAIL : EmailValues,
   ATLASSIAN_URL : UrlValues]

\* the <phrase> argument
Phrases == { <<>>, <<" ">>, <<"a">>, <<"a", " ", "b">>, <<"a", "&", "b", "=", "\"">> }

\* the --limit option: not given, or its text
LimitOptions ==
  { Unset, Some(<<"0">>), Some(<<"3">>), Some(<<"2", "5">>), Some(<<"-", "5">>),
    Some(<<"a", "b", "c">>), Some(<<>>) }

\* HTTP statuses the service may answer with, and their reason phrases
Statuses == {200, 204, 304, 400, 401, 404, 500}

StatusTexts == {"", "Reason"}

\* version.when of a raw result: an ISO-8601 instant (year, month, day, hour
\* and UTC offset in hours), the empty text, or a text that is not a date
IsoWhen == [kind |-> "iso", y |-> 2024, mo |-> 3, d |-> 5, h |-> 10, off |-> 0]

EmptyWhen == [kind |-> "empty", y |-> 0, mo |-> 0, d |-> 0, h |-> 0, off |-> 0]

GarbageWhen == [kind |-> "garbage", y |-> 0, mo |-> 0, d |-> 0, h |-> 0, off |-> 0]

\* "2024-02-29T23:00:00-02:00", the first of March in UTC
LeapWhen == [kind |-> "iso", y |-> 2024, mo |-> 2, d |-> 29, h |-> 23, off |-> -2]

\* "9999-12-31T23:30:00-01:00", in the year 10000 in UTC
FarWhen == [kind |-> "iso", y |-> 9999, mo |-> 12, d |-> 31, h |-> 23, off |-> -1]

\* a title one character longer than the title column shows, and one that
\* just fits
LongTitle == [i \in 1..57 |-> Digits[(i % 10) + 1]]

FittingTitle == [i \in 1..56 |-> Digits[(i % 10) + 1]]

RawItem(id, title, space, version, webui) ==
  [id |-> id, title |-> title, space |-> space, version |-> version, webui |-> webui]

\* raw result entries of a response body (untrusted)
RawItems ==
  { RawItem("101", Some(<<"D", "o", "c">>), Some([key |-> Some("ENG"), name |-> Some("Engineering")]),
            Some([when |-> Some(IsoWhen), by |-> Some([displayName |-> Some("Ann")])]),
            Some("/spaces/ENG/pages/101")),
    RawItem("102", Unset, Unset, Unset, Unset),
    RawItem("103", Some(<<"B", "a", "d">>), Some([key |-> Some("OPS"), name |-> Unset]),
            Some([when |-> Some(GarbageWhen),
                  by |-> Unset]),
            Unset),
    RawItem("104", Some(<<>>), Some([key |-> Unset, name |-> Unset]),
            Some([when |-> Some(EmptyWhen),
                  by |-> Some([displayName |-> Some("")])]),
            Some("javascript:alert(1)")),
    RawItem("105", Some(LongTitle), Some([key |-> Some("ENG"), name |-> Some("Engineering")]),
            Some([when |-> Unset, by |-> Some([displayName |-> Unset])]),
            Unset),
    RawItem("106", Some(FittingTitle), Unset,
            Some([when |-> Some(LeapWhen), by |-> Unset]), Unset),
    RawItem("107", Some(<<"F", "a", "r">>), Some([key |-> Some("OPS"), name |-> Unset]),
            Some([when |-> Some(FarWhen), by |-> Some([displayName |-> Some("Ann")])]),
            Unset) }

RECURSIVE SeqsUpTo(_, _)
SeqsUpTo(S, n) ==
  IF n = 0 THEN {<<>>}
  ELSE LET shorter == SeqsUpTo(S, n - 1)
       IN shorter \cup {Append(q, x) : q \in {r \in shorter : Len(r) = n - 1}, x \in S}

\* bodies of a response: not JSON, cut off while being read, the JSON value
\* null, a JSON value without a results array, an object whose results is
\* not an array, an object with a results array
Bodies ==
  { [kind |-> k, results |-> <<>>] :
      k \in {"nonjson", "aborted", "null", "noresults", "scalar-results"} }
  \cup { [kind |-> "array", results |-> r] : r \in SeqsUpTo(RawItems, MaxResults) }

(***************************************************************************)
(* ConfigProvider: src/unnamed/part_001 (lib/config of the environment-    *)
(* based configuration that search.ts imports getConfluenceUsername from). *)
(***************************************************************************)
DEFAULT_CONFLUENCE_URL == <<"https://", "relias.atlassian.net", "/wiki">>

getConfluenceUrl(e) == OrElse(e.ATLASSIAN_URL, <<>>, DEFAULT_CONFLUENCE_URL)

getConfluenceToken(e) == OrElse(e.ATLASSIAN_API_TOKEN, "", "")

getConfluenceUsername(e) == OrElse(e.ATLASSIAN_EMAIL, "", "")

\* isConfluenceConfigured checking the token only
isConfluenceConfiguredTokenOnly(e) == Truthy(e.ATLASSIAN_API_TOKEN, "")

\* isConfluenceConfigured checking the base URL and the token
isConfluenceConfiguredUrlAndToken(e) ==
  Truthy(e.ATLASSIAN_URL, <<>>) /\ Truthy(e.ATLASSIAN_API_TOKEN, "")

isConfluenceConfigured(e) ==
  Truthy(e.ATLASSIAN_API_TOKEN, "") /\ Truthy(e.ATLASSIAN_EMAIL, "")

(***************************************************************************)
(* Pure helpers of searchConfluence (src/src/commands/search.ts).          *)
(***************************************************************************)
\* confluenceUrl.replace(/\/$/, ''): one trailing slash removed
StripTrailingSlash(u) ==
  IF u # <<>> /\ u[Len(u)] = "/" THEN SubSeq(u, 1, Len(u) - 1) ELSE u

\* new URL(text) throws unless the text is an absolute URL
IsAbsoluteUrl(u) == u # <<>> /\ u[1] \in {"https://", "http://"}

searchUrl(base) == StripTrailingSlash(base) \o <<"/rest/api/content/search">>

\* cql built without the quotes around the phrase
cqlUnquoted(phrase) ==
  <<"t", "y", "p", "e", "=", "p", "a", "g", "e", " ", "A", "N", "D", " ",
    "t", "e", "x", "t", "~">> \o phrase

\* `type=page AND text~"${phrase}"`
cql(phrase) ==
  <<"t", "y", "p", "e", "=", "p", "a", "g", "e", " ", "A", "N", "D", " ",
    "t", "e", "x", "t", "~", "\"">> \o phrase \o <<"\"">>

\* 'space,history,version'
expandFields ==
  <<"s", "p", "a", "c", "e", ",", "h", "i", "s", "t", "o", "r", "y", ",",
    "v", "e", "r", "s", "i", "o", "n">>

\* characters URLSearchParams leaves as they are: ASCII letters, digits, *-._
FormUnreserved ==
  { "a", "b", "c", "d", "e", "f", "g", "h", "i", "j", "k", "l", "m", "n", "o",
    "p", "q", "r", "s", "t", "u", "v", "w", "x", "y", "z",
    "A", "B", "C", "D", "E", "F", "G", "H", "I", "J", "K", "L", "M", "N", "O",
    "P", "Q", "R", "S", "T", "U", "V", "W", "X", "Y", "Z",
    "0", "1", "2", "3", "4", "5", "6", "7", "8", "9", "*", "-", ".", "_" }

\* ASCII codes of the other characters of the model
CharCode ==
  (" " :> 32) @@ ("\"" :> 34) @@ ("%" :> 37) @@ ("&" :> 38) @@ ("+" :> 43)
    @@ ("," :> 44) @@ ("=" :> 61) @@ ("~" :> 126)

HexDigits ==
  <<"0", "1", "2", "3", "4", "5", "6", "7", "8", "9", "A", "B", "C", "D", "E", "F">>

\* application/x-www-form-urlencoded: a space becomes +, every other
\* character that is not unreserved becomes %XX
FormEncodeChar(c) ==
  IF c \in FormUnreserved THEN <<c>>
  ELSE IF c = " " THEN <<"+">>
  ELSE <<"%", HexDigits[(CharCode[c] \div 16) + 1], HexDigits[(CharCode[c] % 16) + 1]>>

RECURSIVE FormEncode(_)
FormEncode(s) == IF s = <<>> THEN <<>> ELSE FormEncodeChar(Head(s)) \o FormEncode(Tail(s))

\* searchUrl.search after the three searchParams.append calls
searchQuery(cqlValue, limitValue, expandValue) ==
  <<"c", "q", "l", "=">> \o FormEncode(cqlValue)
    \o <<"&", "l", "i", "m", "i", "t", "=">> \o FormEncode(limitValue)
    \o <<"&", "e", "x", "p", "a", "n", "d", "=">> \o FormEncode(expandValue)

\* options.limit || 10, for the number parseInt returned
effectiveLimit(n) == IF n.nan \/ n.val = 0 THEN 10 ELSE n.val

\* the text base64-encoded into the Authorization header
\* Buffer.from(text): the UTF-8 bytes of the texts of the credentials
Utf8 ==
  ("" :> <<>>) @@ ("user" :> <<117, 115, 101, 114>>) @@ (":" :> <<58>>)
    @@ ("s3cret" :> <<115, 51, 99, 114, 101, 116>>)
    @@ ("ann@example.com" :>
          <<97, 110, 110, 64, 101, 120, 97, 109, 112, 108, 101, 46, 99, 111, 109>>)

B64Chars ==
  <<"A", "B", "C", "D", "E", "F", "G", "H", "I", "J", "K", "L", "M", "N", "O", "P",
    "Q", "R", "S", "T", "U", "V", "W", "X", "Y", "Z", "a", "b", "c", "d", "e", "f",
    "g", "h", "i", "j", "k", "l", "m", "n", "o", "p", "q", "r", "s", "t", "u", "v",
    "w", "x", "y", "z", "0", "1", "2", "3", "4", "5", "6", "7", "8", "9", "+", "/">>

\* Buffer.toString('base64'): three bytes become four characters, a last
\* group of one or two bytes is padded with =
RECURSIVE Base64(_)
Base64(b) ==
  IF b = <<>> THEN <<>>
  ELSE IF Len(b) = 1
    THEN <<B64Chars[(b[1] \div 4) + 1], B64Chars[((b[1] % 4) * 16) + 1], "=", "=">>
  ELSE IF Len(b) = 2
    THEN <<B64Chars[(b[1] \div 4) + 1],
           B64Chars[((b[1] % 4) * 16) + (b[2] \div 16) + 1],
           B64Chars[((b[2] % 16) * 4) + 1], "=">>
  ELSE <<B64Chars[(b[1] \div 4) + 1],
         B64Chars[((b[1] % 4) * 16) + (b[2] \div 16) + 1],
         B64Chars[((b[2] % 16) * 4) + (b[3] \div 64) + 1],
         B64Chars[(b[3] % 64) + 1]>> \o Base64(SubSeq(b, 4, Len(b)))

\* authString encoding user:token whatever the username is
authStringTokenOnly(username, token) ==
  Base64(Utf8["user"] \o Utf8[":"] \o Utf8[token])

authString(username, token) ==
  IF username # "" THEN Base64(Utf8[username] \o Utf8[":"] \o Utf8[token])
  ELSE Base64(Utf8["user"] \o Utf8[":"] \o Utf8[token])

SearchRequest(base, phrase, n, username, token) ==
  [url |-> searchUrl(base), cql |-> cql(phrase),
   limit |-> NumberToString(effectiveLimit(n)),
   expand |-> expandFields,
   query |-> searchQuery(cql(phrase), NumberToString(effectiveLimit(n)), expandFields),
   authorization |-> <<"Basic ">> \o authString(username, token)]

\* Response.ok
ResponseOk(status) == status \in 200..299

(***************************************************************************)
(* ResultMapper: lines 141-153.                                            *)
(***************************************************************************)
IsLeap(y) == (y % 4 = 0 /\ y % 100 # 0) \/ y % 400 = 0

DaysInMonth(y, mo) ==
  IF mo = 2 THEN (IF IsLeap(y) THEN 29 ELSE 28)
  ELSE IF mo \in {4, 6, 9, 11} THEN 30 ELSE 31

\* the UTC calendar date of an instant given in local time with an offset
UtcDate(w) ==
  LET uh == w.h - w.off
  IN IF uh < 0
       THEN IF w.d > 1 THEN <<w.y, w.mo, w.d - 1>>
            ELSE IF w.mo > 1 THEN <<w.y, w.mo - 1, DaysInMonth(w.y, w.mo - 1)>>
            ELSE <<w.y - 1, 12, 31>>
     ELSE IF uh >= 24
       THEN IF w.d < DaysInMonth(w.y, w.mo) THEN <<w.y, w.mo, w.d + 1>>
            ELSE IF w.mo < 12 THEN <<w.y, w.mo + 1, 1>>
            ELSE <<w.y + 1, 1, 1>>
     ELSE <<w.y, w.mo, w.d>>

RECURSIVE PadStart(_, _)
PadStart(s, width) == IF Len(s) >= width THEN s ELSE PadStart(<<"0">> \o s, width)

\* new Date(when) is an invalid date unless the text is a date
DateIsValid(w) == w.kind = "iso"

\* the year of toISOString: four digits, or a sign and six digits beyond 9999
ISOYear(y) ==
  IF y <= 9999 THEN PadStart(NatToString(y), 4) ELSE <<"+">> \o PadStart(NatToString(y), 6)

\* new Date(when).toISOString().split('T')[0]
ISODatePart(w) ==
  LET dt == UtcDate(w)
  IN ISOYear(dt[1]) \o <<"-">> \o PadStart(NatToString(dt[2]), 2)
       \o <<"-">> \o PadStart(NatToString(dt[3]), 2)

\* item.version?.when, with the empty text falsy
WhenOf(item) ==
  IF item.version = Unset THEN Unset
  ELSE IF Get(item.version).when = Unset THEN Unset
  ELSE IF Get(Get(item.version).when).kind = "empty" THEN Unset
  ELSE Get(item.version).when

\* item.version?.by?.displayName
DisplayNameOf(item) ==
  IF item.version = Unset THEN Unset
  ELSE IF Get(item.version).by = Unset THEN Unset
  ELSE Get(Get(item.version).by).displayName

SpaceField(item, f) ==
  IF item.space = Unset THEN Unset
  ELSE IF f = "name" THEN Get(item.space).name ELSE Get(item.space).key

\* MapThrows of a conversion that never throws
MapThrowsNever(item) == FALSE

\* the callback of data.results.map: throws (RangeError) on a when that is
\* not a date
MapThrows(item) == WhenOf(item) # Unset /\ ~DateIsValid(Get(WhenOf(item)))

\* resultUrl built on the default base URL, whatever the configured one is
resultUrlDefaultBase(base, id) ==
  StripTrailingSlash(DEFAULT_CONFLUENCE_URL) \o <<"/pages/viewpage.action?pageId=", id>>

resultUrl(base, id) ==
  StripTrailingSlash(base) \o <<"/pages/viewpage.action?pageId=", id>>

\* MapItem taking the link from the entry's _links.webui when it has one
MapItemWebui(item, base) ==
  [id |-> item.id,
   title |-> OrElse(item.title, <<>>, <<"U", "n", "t", "i", "t", "l", "e", "d">>),
   space |-> IF Truthy(SpaceField(item, "name"), "") THEN Get(SpaceField(item, "name"))
             ELSE OrElse(SpaceField(item, "key"), "", "Unknown"),
   spaceKey |-> OrElse(SpaceField(item, "key"), "", ""),
   url |-> IF Truthy(item.webui, "") THEN StripTrailingSlash(base) \o <<Get(item.webui)>>
           ELSE resultUrl(base, item.id),
   updatedBy |-> OrElse(DisplayNameOf(item), "", "Unknown"),
   updatedDate |-> IF WhenOf(item) # Unset THEN ISODatePart(Get(WhenOf(item)))
                   ELSE <<"N", "/", "A">>]

MapItem(item, base) ==
  [id |-> item.id,
   title |-> OrElse(item.title, <<>>, <<"U", "n", "t", "i", "t", "l", "e", "d">>),
   space |-> IF Truthy(SpaceField(item, "name"), "") THEN Get(SpaceField(item, "name"))
             ELSE OrElse(SpaceField(item, "key"), "", "Unknown"),
   spaceKey |-> OrElse(SpaceField(item, "key"), "", ""),
   url |-> resultUrl(base, item.id),
   updatedBy |-> OrElse(DisplayNameOf(item), "", "Unknown"),
   updatedDate |-> IF WhenOf(item) # Unset THEN ISODatePart(Get(WhenOf(item)))
                   ELSE <<"N", "/", "A">>]

\* MapResults giving the entries last to first
MapResultsReversed(body, base) ==
  IF body.kind = "array" /\ body.results # <<>>
    THEN [i \in 1..Len(body.results) |->
            MapItem(body.results[Len(body.results) + 1 - i], base)]
    ELSE <<>>

\* data.results?.map(...) || []
MapResults(body, base) ==
  IF body.kind = "array" /\ body.results # <<>>
    THEN [i \in 1..Len(body.results) |-> MapItem(body.results[i], base)]
    ELSE <<>>

\* what response.json() and the mapping throw for a body, "" when nothing
BodyError(body) ==
  IF body.kind = "nonjson" THEN "Unexpected token < in JSON at position 0"
  ELSE IF body.kind = "aborted" THEN "terminated"
  ELSE IF body.kind = "null" THEN "Cannot read properties of null (reading 'results')"
  ELSE IF body.kind = "scalar-results" THEN "data.results?.map is not a function"
  ELSE IF body.kind = "array" /\ \E i \in 1..Len(body.results) : MapThrows(body.results[i])
    THEN "Invalid time value"
  ELSE ""

(***************************************************************************)
(* TableRenderer: lines 162-246.                                           *)
(***************************************************************************)
titleWidth == 60

\* truncateTitle comparing with >= instead of >
truncateTitleAtLimit(title) ==
  LET maxTitleLen == titleWidth - 4
  IN IF Len(title) >= maxTitleLen
       THEN SubSeq(title, 1, maxTitleLen - 3) \o <<".", ".", ".">>
       ELSE title

\* lines 228-232
truncateTitle(title) ==
  LET maxTitleLen == titleWidth - 4
  IN IF Len(title) > maxTitleLen
       THEN SubSeq(title, 1, maxTitleLen - 3) \o <<".", ".", ".">>
       ELSE title

\* OSC 8 hyperlink, lines 18-21
hyperlink(text, url) ==
  <<"\\x1b]8;;">> \o url \o <<"\\x07">> \o text \o <<"\\x1b]8;;", "\\x07">>

\* tableRow shortening the decorated text instead of the title
tableRowDecorateFirst(result) ==
  <<truncateTitle(hyperlink(result.title, result.url)), result.spaceKey,
    result.updatedBy, result.updatedDate>>

tableRow(result) ==
  <<hyperlink(truncateTitle(result.title), result.url), result.spaceKey,
    result.updatedBy, result.updatedDate>>

\* tableRows with a loop that stops one entry early
tableRowsDropLast(rs) ==
  IF Len(rs) <= 1 THEN <<>> ELSE [i \in 1..(Len(rs) - 1) |-> tableRow(rs[i])]

tableRows(rs) == IF rs = <<>> THEN <<>> ELSE [i \in 1..Len(rs) |-> tableRow(rs[i])]

\* the summary banner, lines 162-186
fixedWidths == [space |-> 8, updatedBy |-> 18, date |-> 12]

bannerWidth ==
  titleWidth + fixedWidths.space + fixedWidths.updatedBy + fixedWidths.date + 3

\* `Confluence Search Results (${results.length} found)`
titleText(n) ==
  <<"C", "o", "n", "f", "l", "u", "e", "n", "c", "e", " ">>
    \o <<"S", "e", "a", "r", "c", "h", " ">>
    \o <<"R", "e", "s", "u", "l", "t", "s", " ", "(">>
    \o NatToString(n) \o <<" ", "f", "o", "u", "n", "d", ")">>

Max(a, b) == IF a >= b THEN a ELSE b

\* c.repeat(k)
Repeat(c, k) == [i \in 1..k |-> c]

centerPos == bannerWidth \div 2

centerStart(n) == centerPos - (Len(titleText(n)) \div 2)

\* spacesToCenter without the column of the leading space taken off
spacesToCenterNoOffset(n) == Max(1, centerStart(n))

spacesToCenter(n) == Max(1, centerStart(n) - 1)

spacesToRight(n, time) ==
  Max(1, bannerWidth - spacesToCenter(n) - Len(titleText(n)) - Len(time) - 2)

\* ' ' + ' '.repeat(spacesToCenter) + titleText + ' '.repeat(spacesToRight)
\*   + currentTime + ' '
bannerLine(n, time) ==
  <<" ">> \o Repeat(" ", spacesToCenter(n)) \o titleText(n)
    \o Repeat(" ", spacesToRight(n, time)) \o time \o <<" ">>

(***************************************************************************)
(* State of one invocation of `confluence-search search <phrase>`.         *)
(***************************************************************************)
VARIABLES
  env,        \* process.env, read by the ConfigProvider
  argv,       \* the <phrase> argument and the --limit option
  pc,         \* stage of the invocation
  options,    \* SearchOptions handed to searchConfluence
  configured, \* what isConfluenceConfigured() returned
  spinner,    \* the ora progress indicator: idle, spinning, failed, stopped
  requests,   \* requests handed to fetch, in order
  inflight,   \* requests issued and not yet settled
  response,   \* the response fetch resolved with
  bodyRead,   \* response.json() has been called
  results,    \* the SearchResult list
  out,        \* what was written to the terminal, in order
  exited,     \* the process has ended
  exitCode,   \* its exit status
  cause,      \* what went wrong, as it happened (history)
  failedAt    \* the stage that failed (history)

\* the state of one invocation of searchConfluence
searchVars ==
  <<env, argv, pc, options, configured, spinner, requests, inflight, response,
    bodyRead, results, out, exited, exitCode, cause, failedAt>>

VARIABLES
  resultCount, \* results.length when the banner is built
  currentTime, \* new Date().toLocaleTimeString()
  styledLine   \* the line written between the banner's borders

bannerVars == <<resultCount, currentTime, styledLine>>

\* no banner is being built
BannerIdle == resultCount = 0 /\ currentTime = <<>> /\ styledLine = <<>>

VARIABLES
  command,          \* thisCommand.args[0] of the preAction hook
  firstRunComplete, \* config.get('firstRunComplete')
  defaultModel,     \* config.get('defaultModel')
  availableModels,  \* config.get('availableModels')
  hookPc,           \* position in the preAction hook and in runFirstTimeSetup
  client,           \* the CopilotClient of the wizard: none, new, started, stopped
  stopCalls,        \* calls of client.stop()
  models,           \* what client.listModels() resolved with
  returned,         \* what runFirstTimeSetup returned, unset until it does
  actionRan,        \* the command's action handler was called
  cliExit,          \* exit status of the process, unset while it runs
  wizardRuns,       \* calls of runFirstTimeSetup (history)
  completeBefore,   \* firstRunComplete when the wizard started (history)
  wizardPath        \* how the wizard went (history)

setupVars ==
  <<command, firstRunComplete, defaultModel, availableModels, hookPc, client,
    stopCalls, models, returned, actionRan, cliExit, wizardRuns, completeBefore,
    wizardPath>>

\* no command line is being dispatched
SetupIdle ==
  /\ command = "search"
  /\ firstRunComplete = TRUE
  /\ defaultModel = "claude-sonnet-4.5"
  /\ availableModels = <<>>
  /\ hookPc = "idle"
  /\ client = "none"
  /\ stopCalls = 0
  /\ models = <<>>
  /\ returned = Unset
  /\ actionRan = FALSE
  /\ cliExit = Unset
  /\ wizardRuns = 0
  /\ completeBefore = TRUE
  /\ wizardPath = "none"

MaxPrompts == 2

MaxCloses == 2

VARIABLES
  session,          \* this.session of the AIService: 0 for null, else the session's id
  clientStarts,     \* calls of this.client.start()
  sessionsCreated,  \* sessions client.createSession() resolved with
  promptPc,         \* position of each prompt() call
  promptSession,    \* the session ensureSession() returned to each prompt() call
  promptAfterClose, \* the prompt() call was made after a close() call (history)
  sent,             \* the sendAndWait() calls, in order
  closePc,          \* position of each close() call, and the session it destroys
  destroyCalls,     \* the sessions destroy() was called on, in order
  destroyed,        \* the sessions whose destroy() resolved
  clientStops       \* calls of this.client.stop()

aiVars ==
  <<session, clientStarts, sessionsCreated, promptPc, promptSession, promptAfterClose,
    sent, closePc, destroyCalls, destroyed, clientStops>>

\* a new AIService on which nothing has been called
AIServiceNew ==
  /\ session = 0
  /\ clientStarts = 0
  /\ sessionsCreated = 0
  /\ promptPc = [p \in 1..MaxPrompts |-> "idle"]
  /\ promptSession = [p \in 1..MaxPrompts |-> 0]
  /\ promptAfterClose = [p \in 1..MaxPrompts |-> FALSE]
  /\ sent = <<>>
  /\ closePc = [c \in 1..MaxCloses |-> [at |-> "idle", target |-> 0]]
  /\ destroyCalls = <<>>
  /\ destroyed = {}
  /\ clientStops = 0

VARIABLES
  processArgv,  \* process.argv of the development wrapper
  args,         \* its args array
  originalArgs, \* the arguments the wrapper was first started with (history)
  wrapperRuns   \* runs of the wrapper (history)

wrapperVars == <<processArgv, args, originalArgs, wrapperRuns>>

\* no development wrapper is running
WrapperIdle ==
  processArgv = <<>> /\ args = <<>> /\ originalArgs = <<>> /\ wrapperRuns = 0

\* the state outside searchConfluence
otherVars == <<bannerVars, setupVars, aiVars, wrapperVars>>

OtherIdle == BannerIdle /\ SetupIdle /\ AIServiceNew /\ WrapperIdle

\* the state outside the banner, outside the first-run gate, outside the
\* AIService and outside the development wrapper
notBannerVars == <<searchVars, setupVars, aiVars, wrapperVars>>

notSetupVars == <<searchVars, bannerVars, aiVars, wrapperVars>>

notAiVars == <<searchVars, bannerVars, setupVars, wrapperVars>>

notWrapperVars == <<searchVars, bannerVars, setupVars, aiVars>>

vars == <<searchVars, otherVars>>

NoResponse == [status |-> 0, statusText |-> "", body |-> [kind |-> "none", results |-> <<>>]]

\* one write to the terminal
Ev(ch, text) ==
  [ch |-> ch, text |-> text, status |-> 0, statusText |-> "", n |-> 0, rows |-> <<>>]

Init ==
  /\ env \in Environments
  /\ argv \in [phrase : Phrases, limit : LimitOptions]
  /\ pc = "cli"
  /\ options = [phrase |-> <<>>, limit |-> [nan |-> TRUE, val |-> 0]]
  /\ configured = FALSE
  /\ spinner = "idle"
  /\ requests = <<>>
  /\ inflight = 0
  /\ response = NoResponse
  /\ bodyRead = FALSE
  /\ results = <<>>
  /\ out = <<>>
  /\ exited = FALSE
  /\ exitCode = 0
  /\ cause = "none"
  /\ failedAt = "none"
  /\ OtherIdle

\* the `search <phrase>` command of the CLI: --limit defaults to '10' and is
\* handed on as parseInt(options.limit)
SearchCommand ==
  /\ pc = "cli"
  /\ options' = [phrase |-> argv.phrase,
                 limit |-> parseInt(IF argv.limit = Unset THEN <<"1", "0">>
                                    ELSE Get(argv.limit))]
  /\ pc' = "validating-config"
  /\ UNCHANGED <<env, argv, configured, spinner, requests, inflight, response,
                 bodyRead, results, out, exited, exitCode, cause, failedAt>>
  /\ UNCHANGED otherVars

\* ReportError logging the message before it fails the spinner
ReportErrorMessageFirst(before, heading, message, c) ==
  /\ spinner' = "failed"
  /\ out' = out \o before \o <<message, Ev("spinner.fail", heading)>>
  /\ exited' = TRUE
  /\ exitCode' = 1
  /\ cause' = c
  /\ failedAt' = pc
  /\ pc' = "reported-error"

\* a failure is reported after the writes `before`: spinner.fail(heading),
\* one message, process.exit(1)
ReportError(before, heading, message, c) ==
  /\ spinner' = "failed"
  /\ out' = out \o before \o <<Ev("spinner.fail", heading), message>>
  /\ exited' = TRUE
  /\ exitCode' = 1
  /\ cause' = c
  /\ failedAt' = pc
  /\ pc' = "reported-error"

\* the catch block, lines 247-254
CatchError(before, message, c) ==
  ReportError(before, "Search error", Ev("console.error", message), c)

\* lines 43-74: banner, then the configuration check
ValidateConfig ==
  /\ pc = "validating-config"
  /\ configured' = isConfluenceConfigured(env)
  /\ IF ~isConfluenceConfigured(env)
       THEN ReportError(<<Ev("showBanner", "")>>, "Confluence not configured",
                        Ev("console.log", "Setup Required"), "ConfigurationMissing")
       ELSE /\ out' = Append(out, Ev("showBanner", ""))
            /\ pc' = "building-query"
            /\ UNCHANGED <<spinner, exited, exitCode, cause, failedAt>>
  /\ UNCHANGED <<env, argv, options, requests, inflight, response, bodyRead, results>>
  /\ UNCHANGED otherVars

\* lines 76-99: read the configuration, start the spinner, build the URL and
\* the Authorization header, call fetch
BuildQuery ==
  /\ pc = "building-query"
  /\ LET base == getConfluenceUrl(env)
         started == Ev("spinner.start", "Searching Confluence")
     IN IF ~IsAbsoluteUrl(searchUrl(base))
          THEN /\ CatchError(<<started>>, "Invalid URL", "InvalidUrl")
               /\ UNCHANGED <<requests, inflight>>
          ELSE /\ spinner' = "spinning"
               /\ out' = Append(out, started)
               /\ requests' = Append(requests,
                    SearchRequest(base, options.phrase, options.limit,
                                  getConfluenceUsername(env), getConfluenceToken(env)))
               /\ inflight' = inflight + 1
               /\ pc' = "awaiting-response"
               /\ UNCHANGED <<exited, exitCode, cause, failedAt>>
  /\ UNCHANGED <<env, argv, options, configured, response, bodyRead, results>>
  /\ UNCHANGED otherVars

\* FetchRejects with a retry: a rejected fetch builds and sends the query again
FetchRejectsRetry ==
  /\ pc = "awaiting-response"
  /\ inflight' = inflight - 1
  /\ pc' = "building-query"
  /\ UNCHANGED <<env, argv, options, configured, spinner, requests, response,
                 bodyRead, results, out, exited, exitCode, cause, failedAt>>
  /\ UNCHANGED otherVars

\* fetch rejects: no connection, DNS failure, TLS failure
FetchRejects ==
  /\ pc = "awaiting-response"
  /\ inflight' = inflight - 1
  /\ CatchError(<<>>, "fetch failed", "NetworkFailure")
  /\ UNCHANGED <<env, argv, options, configured, requests, response, bodyRead, results>>
  /\ UNCHANGED otherVars

\* HttpFailureHeading without the 404 branch
HttpFailureHeadingNo404(st) ==
  IF st = 401 THEN "Authentication failed" ELSE "Search failed"

\* HttpFailureHeading without any status-specific branch
HttpFailureHeadingGeneric(st) == "Search failed"

\* the spinner.fail text of a response that is not ok, lines 102-115
HttpFailureHeading(st) ==
  IF st = 401 THEN "Authentication failed"
  ELSE IF st = 404 THEN "Not found"
  ELSE "Search failed"

\* the message logged for a response that is not ok, lines 104-116
HttpFailureMessage(st, tx) ==
  IF st = 401
    THEN Ev("console.log", "Invalid ATLASSIAN_API_TOKEN. Please check your token and username.")
  ELSE IF st = 404
    THEN Ev("console.log", "Confluence API endpoint not found. Please verify CONFLUENCE_URL.")
  ELSE [Ev("console.log", "HTTP") EXCEPT !.status = st, !.statusText = tx]

\* the bodies a response of a status may carry: none that can be read with
\* 204 and 304, and at most one entry with a status that is not ok
BodiesOf(st) ==
  IF st \in {204, 304} THEN {b \in Bodies : b.kind \in {"nonjson", "aborted"}}
  ELSE IF ResponseOk(st) THEN Bodies
  ELSE {b \in Bodies : Len(b.results) <= 1}

\* ResponseNotOk with a retry: a response that is not ok sends the query again
ResponseNotOkRetry ==
  /\ pc = "awaiting-response"
  /\ \E st \in Statuses, tx \in StatusTexts :
       \E b \in BodiesOf(st) :
         /\ ~ResponseOk(st)
         /\ response' = [status |-> st, statusText |-> tx, body |-> b]
  /\ inflight' = inflight - 1
  /\ pc' = "building-query"
  /\ UNCHANGED <<env, argv, options, configured, spinner, requests, bodyRead,
                 results, out, exited, exitCode, cause, failedAt>>
  /\ UNCHANGED otherVars

\* lines 101-119: a response that is not ok
ResponseNotOk ==
  /\ pc = "awaiting-response"
  /\ \E st \in Statuses, tx \in StatusTexts :
       \E b \in BodiesOf(st) :
         /\ ~ResponseOk(st)
         /\ response' = [status |-> st, statusText |-> tx, body |-> b]
         /\ ReportError(<<>>, HttpFailureHeading(st), HttpFailureMessage(st, tx),
                        IF st = 401 THEN "AuthenticationFailed"
                        ELSE IF st = 404 THEN "ResourceNotFound" ELSE "HttpError")
  /\ inflight' = inflight - 1
  /\ UNCHANGED <<env, argv, options, configured, requests, bodyRead, results>>
  /\ UNCHANGED otherVars

\* fetch resolves with an ok response
ResponseReceived ==
  /\ pc = "awaiting-response"
  /\ \E st \in Statuses, tx \in StatusTexts :
       \E b \in BodiesOf(st) :
         /\ ResponseOk(st)
         /\ response' = [status |-> st, statusText |-> tx, body |-> b]
  /\ inflight' = inflight - 1
  /\ pc' = "mapping"
  /\ UNCHANGED <<env, argv, options, configured, spinner, requests, bodyRead,
                 results, out, exited, exitCode, cause, failedAt>>
  /\ UNCHANGED otherVars

\* what went wrong when reading or mapping a body fails
BodyFailure(body) ==
  IF body.kind = "aborted" THEN "NetworkFailure" ELSE "ParseFailure"

\* the table of the entries mapped before the first one that throws
RowsBeforeFailure(body, base) ==
  IF body.kind = "array" /\ body.results # <<>> /\ ~MapThrows(body.results[1])
    THEN LET k == CHOOSE i \in 1..Len(body.results) :
                    /\ MapThrows(body.results[i])
                    /\ \A j \in 1..(i - 1) : ~MapThrows(body.results[j])
             done == [i \in 1..(k - 1) |-> MapItem(body.results[i], base)]
         IN << [Ev("table", "") EXCEPT !.rows = tableRows(done)] >>
    ELSE <<>>

\* MapResponse rendering each entry as soon as it is mapped
MapResponseStreaming ==
  /\ pc = "mapping"
  /\ bodyRead' = TRUE
  /\ IF BodyError(response.body) # ""
       THEN /\ CatchError(RowsBeforeFailure(response.body, getConfluenceUrl(env)),
                          BodyError(response.body), BodyFailure(response.body))
            /\ UNCHANGED results
       ELSE /\ results' = MapResults(response.body, getConfluenceUrl(env))
            /\ spinner' = "stopped"
            /\ pc' = "rendering"
            /\ UNCHANGED <<out, exited, exitCode, cause, failedAt>>
  /\ UNCHANGED <<env, argv, options, configured, requests, inflight, response>>
  /\ UNCHANGED otherVars

\* lines 121-155: response.json(), the mapping, spinner.stop()
MapResponse ==
  /\ pc = "mapping"
  /\ bodyRead' = TRUE
  /\ IF BodyError(response.body) # ""
       THEN /\ CatchError(<<>>, BodyError(response.body), BodyFailure(response.body))
            /\ UNCHANGED results
       ELSE /\ results' = MapResults(response.body, getConfluenceUrl(env))
            /\ spinner' = "stopped"
            /\ pc' = "rendering"
            /\ UNCHANGED <<out, exited, exitCode, cause, failedAt>>
  /\ UNCHANGED <<env, argv, options, configured, requests, inflight, response>>
  /\ UNCHANGED otherVars

\* Render treating an empty result list as a failure: process.exit(1)
RenderExitOnEmpty ==
  /\ pc = "rendering"
  /\ out' = IF Len(results) = 0
              THEN Append(out, Ev("console.log", "No documents found matching your search."))
              ELSE out \o << [Ev("banner", "Confluence Search Results") EXCEPT !.n = Len(results)],
                             [Ev("table", "") EXCEPT !.rows = tableRows(results)] >>
  /\ exited' = TRUE
  /\ exitCode' = IF Len(results) = 0 THEN 1 ELSE exitCode
  /\ pc' = "done"
  /\ UNCHANGED <<env, argv, options, configured, spinner, requests, inflight, response,
                 bodyRead, results, cause, failedAt>>
  /\ UNCHANGED otherVars

\* lines 157-246: the "no documents" message, or the banner and the table
Render ==
  /\ pc = "rendering"
  /\ out' = IF Len(results) = 0
              THEN Append(out, Ev("console.log", "No documents found matching your search."))
              ELSE out \o << [Ev("banner", "Confluence Search Results") EXCEPT !.n = Len(results)],
                             [Ev("table", "") EXCEPT !.rows = tableRows(results)] >>
  /\ exited' = TRUE
  /\ pc' = "done"
  /\ UNCHANGED <<env, argv, options, configured, spinner, requests, inflight, response,
                 bodyRead, results, exitCode, cause, failedAt>>
  /\ UNCHANGED otherVars

Next ==
  \/ SearchCommand
  \/ ValidateConfig
  \/ BuildQuery
  \/ FetchRejects
  \/ ResponseNotOk
  \/ ResponseReceived
  \/ MapResponse
  \/ Render

Spec == Init /\ [][Next]_vars

(***************************************************************************)
(* The banner alone: every result count and every length of the time text. *)
(***************************************************************************)
MaxCount == 120

MaxTimeLength == 40

\* no search is running
SearchIdle ==
  /\ env = [ATLASSIAN_API_TOKEN |-> Unset, ATLASSIAN_EMAIL |-> Unset, ATLASSIAN_URL |-> Unset]
  /\ argv = [phrase |-> <<>>, limit |-> Unset]
  /\ pc = "cli"
  /\ options = [phrase |-> <<>>, limit |-> [nan |-> TRUE, val |-> 0]]
  /\ configured = FALSE
  /\ spinner = "idle"
  /\ requests = <<>>
  /\ inflight = 0
  /\ response = NoResponse
  /\ bodyRead = FALSE
  /\ results = <<>>
  /\ out = <<>>
  /\ exited = FALSE
  /\ exitCode = 0
  /\ cause = "none"
  /\ failedAt = "none"

\* texts of toLocaleTimeString(), by length ("14:03:22", "10:00:00 AM", ...)
TimeTexts == {Repeat("0", k) : k \in 0..MaxTimeLength}

BannerInit ==
  /\ SearchIdle
  /\ SetupIdle
  /\ AIServiceNew
  /\ WrapperIdle
  /\ resultCount \in 1..MaxCount
  /\ currentTime \in TimeTexts
  /\ styledLine = <<>>

\* lines 170-186: the line between the borders is built
BuildBanner ==
  /\ styledLine = <<>>
  /\ styledLine' = bannerLine(resultCount, currentTime)
  /\ UNCHANGED <<resultCount, currentTime>>
  /\ UNCHANGED notBannerVars

BannerNext == BuildBanner

BannerSpec == BannerInit /\ [][BannerNext]_vars

(***************************************************************************)
(* The first-run gate: the preAction hook of the CLI and the setup wizard  *)
(* runFirstTimeSetup (src/src/commands/config.ts).                         *)
(***************************************************************************)
MaxModels == 2

\* the commands of the CLI
Commands == {"config", "auth", "search"}

\* ids of the models client.listModels() may name
ModelIds == {"gpt-5", "claude-sonnet-4.5", "Opus"}

ModelLists == SeqsUpTo(ModelIds, MaxModels)

ToLowerCase == ("gpt-5" :> "gpt-5") @@ ("claude-sonnet-4.5" :> "claude-sonnet-4.5")
                 @@ ("Opus" :> "opus")

MODEL_ALIASES ==
  ("claude" :> "claude-sonnet-4.5") @@ ("sonnet" :> "claude-sonnet-4.5")
    @@ ("haiku" :> "claude-haiku-4.5") @@ ("opus" :> "claude-opus-4.5")
    @@ ("gpt" :> "gpt-5") @@ ("gpt5" :> "gpt-5") @@ ("codex" :> "gpt-5.2-codex")
    @@ ("gemini" :> "gemini-3-pro-preview")

\* MODEL_ALIASES[modelOrAlias.toLowerCase()] || modelOrAlias
resolveModel(m) ==
  IF ToLowerCase[m] \in DOMAIN MODEL_ALIASES THEN MODEL_ALIASES[ToLowerCase[m]] ELSE m

\* !config.get('firstRunComplete')
isFirstRun == ~firstRunComplete

FirstRunInit ==
  /\ SearchIdle
  /\ BannerIdle
  /\ AIServiceNew
  /\ WrapperIdle
  /\ command \in Commands
  /\ firstRunComplete \in BOOLEAN
  /\ defaultModel \in {"claude-sonnet-4.5", "gpt-5"}
  /\ availableModels = <<>>
  /\ hookPc = "preAction"
  /\ client = "none"
  /\ stopCalls = 0
  /\ models = <<>>
  /\ returned = Unset
  /\ actionRan = FALSE
  /\ cliExit = Unset
  /\ wizardRuns = 0
  /\ completeBefore = firstRunComplete
  /\ wizardPath = "none"

\* an awaited call or a store write threw: control is in the catch block
Thrown ==
  /\ hookPc' = "setup:catch"

\* the preAction hook up to the call of the wizard (part_000, 109-119) and
\* the first lines of the wizard (204-209)
PreAction ==
  /\ hookPc = "preAction"
  /\ IF command \in {"config", "auth"} \/ ~isFirstRun
       THEN /\ hookPc' = "action"
            /\ UNCHANGED <<client, wizardRuns, completeBefore>>
       ELSE /\ hookPc' = "setup:start"
            /\ client' = "new"
            /\ wizardRuns' = wizardRuns + 1
            /\ completeBefore' = firstRunComplete
  /\ UNCHANGED <<command, firstRunComplete, defaultModel, availableModels, stopCalls,
                 models, returned, actionRan, cliExit, wizardPath>>
  /\ UNCHANGED notSetupVars

\* await client.start(), line 211
ClientStart ==
  /\ hookPc = "setup:start"
  /\ \/ /\ client' = "started"
        /\ hookPc' = "setup:auth"
     \/ /\ Thrown
        /\ UNCHANGED client
  /\ UNCHANGED <<command, firstRunComplete, defaultModel, availableModels, stopCalls,
                 models, returned, actionRan, cliExit, wizardRuns, completeBefore,
                 wizardPath>>
  /\ UNCHANGED notSetupVars

\* lines 212-224: the authentication status; a user who is not authenticated
\* has the client stopped and false returned, through the finally block
GetAuthStatus ==
  /\ hookPc = "setup:auth"
  /\ \/ /\ hookPc' = "setup:models"
        /\ wizardPath' = "authenticated"
        /\ UNCHANGED <<client, stopCalls, returned>>
     \/ /\ client' = "stopped"
        /\ stopCalls' = stopCalls + 1
        /\ returned' = Some(FALSE)
        /\ wizardPath' = "not-authenticated"
        /\ hookPc' = "setup:finally"
     \/ /\ Thrown
        /\ UNCHANGED <<client, stopCalls, returned, wizardPath>>
  /\ UNCHANGED <<command, firstRunComplete, defaultModel, availableModels, models,
                 actionRan, cliExit, wizardRuns, completeBefore>>
  /\ UNCHANGED notSetupVars

\* lines 227-229: the models are fetched and their ids saved
ListModels ==
  /\ hookPc = "setup:models"
  /\ \/ \E ms \in ModelLists :
          /\ models' = ms
          /\ availableModels' = ms
          /\ hookPc' = "setup:prompt"
     \/ /\ Thrown
        /\ UNCHANGED <<models, availableModels>>
  /\ UNCHANGED <<command, firstRunComplete, defaultModel, client, stopCalls, returned,
                 actionRan, cliExit, wizardRuns, completeBefore, wizardPath>>
  /\ UNCHANGED notSetupVars

\* SelectModel marking the first run complete before the model is stored
SelectModelCompleteFirst ==
  /\ hookPc = "setup:prompt"
  /\ \/ /\ Thrown
        /\ firstRunComplete' = TRUE
        /\ UNCHANGED <<defaultModel, returned, wizardPath>>
     \/ \E i \in 1..Len(models) :
          /\ defaultModel' = resolveModel(models[i])
          /\ firstRunComplete' = TRUE
          /\ returned' = Some(TRUE)
          /\ wizardPath' = "success"
          /\ hookPc' = "setup:finally"
  /\ UNCHANGED <<command, availableModels, client, stopCalls, models, actionRan,
                 cliExit, wizardRuns, completeBefore>>
  /\ UNCHANGED notSetupVars

\* lines 231-262: the prompt, setDefaultModel, firstRunComplete, return true;
\* the prompt may reject (and has nothing to select from an empty list), and
\* the write of firstRunComplete may throw after the model was stored
SelectModel ==
  /\ hookPc = "setup:prompt"
  /\ \/ /\ Thrown
        /\ UNCHANGED <<defaultModel, firstRunComplete, returned, wizardPath>>
     \/ \E i \in 1..Len(models) :
          /\ defaultModel' = resolveModel(models[i])
          /\ \/ /\ firstRunComplete' = TRUE
                /\ returned' = Some(TRUE)
                /\ wizardPath' = "success"
                /\ hookPc' = "setup:finally"
             \/ /\ Thrown
                /\ UNCHANGED <<firstRunComplete, returned, wizardPath>>
  /\ UNCHANGED <<command, availableModels, client, stopCalls, models, actionRan,
                 cliExit, wizardRuns, completeBefore>>
  /\ UNCHANGED notSetupVars

\* the catch block, lines 263-269
SetupCatch ==
  /\ hookPc = "setup:catch"
  /\ returned' = Some(FALSE)
  /\ wizardPath' = "exception"
  /\ hookPc' = "setup:finally"
  /\ UNCHANGED <<command, firstRunComplete, defaultModel, availableModels, client,
                 stopCalls, models, actionRan, cliExit, wizardRuns, completeBefore>>
  /\ UNCHANGED notSetupVars

\* the finally block, lines 270-272: await client.stop(), which resolves
SetupFinally ==
  /\ hookPc = "setup:finally"
  /\ client' = "stopped"
  /\ stopCalls' = stopCalls + 1
  /\ hookPc' = "hook:return"
  /\ UNCHANGED <<command, firstRunComplete, defaultModel, availableModels, models,
                 returned, actionRan, cliExit, wizardRuns, completeBefore, wizardPath>>
  /\ UNCHANGED notSetupVars

\* HookReturn going on to the action whatever the wizard returned
HookReturnIgnoresFailure ==
  /\ hookPc = "hook:return"
  /\ hookPc' = "action"
  /\ UNCHANGED <<command, firstRunComplete, defaultModel, availableModels, client,
                 stopCalls, models, returned, actionRan, cliExit, wizardRuns,
                 completeBefore, wizardPath>>
  /\ UNCHANGED notSetupVars

\* the hook after the wizard, part_000 lines 120-123
HookReturn ==
  /\ hookPc = "hook:return"
  /\ IF returned = Some(FALSE)
       THEN /\ cliExit' = Some(1)
            /\ hookPc' = "exited"
       ELSE /\ hookPc' = "action"
            /\ UNCHANGED cliExit
  /\ UNCHANGED <<command, firstRunComplete, defaultModel, availableModels, client,
                 stopCalls, models, returned, actionRan, wizardRuns, completeBefore,
                 wizardPath>>
  /\ UNCHANGED notSetupVars

\* the action handler of the command is called
RunAction ==
  /\ hookPc = "action"
  /\ actionRan' = TRUE
  /\ hookPc' = "done"
  /\ UNCHANGED <<command, firstRunComplete, defaultModel, availableModels, client,
                 stopCalls, models, returned, cliExit, wizardRuns, completeBefore,
                 wizardPath>>
  /\ UNCHANGED notSetupVars

FirstRunNext ==
  \/ PreAction
  \/ ClientStart
  \/ GetAuthStatus
  \/ ListModels
  \/ SelectModel
  \/ SetupCatch
  \/ SetupFinally
  \/ HookReturn
  \/ RunAction

FirstRunSpec == FirstRunInit /\ [][FirstRunNext]_vars

(***************************************************************************)
(* AIService (src/src/lib/ai.ts): prompt() and close() calls on one        *)
(* instance, each suspended at its awaits.                                 *)
(***************************************************************************)
AIServiceInit ==
  /\ SearchIdle
  /\ BannerIdle
  /\ SetupIdle
  /\ AIServiceNew
  /\ WrapperIdle

\* a close() call has been made
CloseCalled == \E c \in 1..MaxCloses : closePc[c].at # "idle"

\* prompt() is called: ensureSession() finds a session, or finds none and
\* calls client.start() (lines 43, 25-26)
PromptCall(p) ==
  /\ promptPc[p] = "idle"
  /\ promptAfterClose' = [promptAfterClose EXCEPT ![p] = CloseCalled]
  /\ IF session = 0
       THEN /\ clientStarts' = clientStarts + 1
            /\ promptPc' = [promptPc EXCEPT ![p] = "starting"]
            /\ UNCHANGED promptSession
       ELSE /\ promptSession' = [promptSession EXCEPT ![p] = session]
            /\ promptPc' = [promptPc EXCEPT ![p] = "ensured"]
            /\ UNCHANGED clientStarts
  /\ UNCHANGED <<session, sessionsCreated, sent, closePc, destroyCalls, destroyed,
                 clientStops>>
  /\ UNCHANGED notAiVars

\* client.start() resolved: createSession() is called (lines 27-28)
StartResolved(p) ==
  /\ promptPc[p] = "starting"
  /\ promptPc' = [promptPc EXCEPT ![p] = "creating"]
  /\ UNCHANGED <<session, clientStarts, sessionsCreated, promptSession,
                 promptAfterClose, sent, closePc, destroyCalls, destroyed, clientStops>>
  /\ UNCHANGED notAiVars

\* createSession() resolved: the session is stored and returned (28-36)
SessionCreated(p) ==
  /\ promptPc[p] = "creating"
  /\ sessionsCreated' = sessionsCreated + 1
  /\ session' = sessionsCreated + 1
  /\ promptSession' = [promptSession EXCEPT ![p] = sessionsCreated + 1]
  /\ promptPc' = [promptPc EXCEPT ![p] = "ensured"]
  /\ UNCHANGED <<clientStarts, promptAfterClose, sent, closePc, destroyCalls,
                 destroyed, clientStops>>
  /\ UNCHANGED notAiVars

\* client.start() or createSession() rejected: so does prompt()
EnsureRejected(p) ==
  /\ promptPc[p] \in {"starting", "creating"}
  /\ promptPc' = [promptPc EXCEPT ![p] = "rejected"]
  /\ UNCHANGED <<session, clientStarts, sessionsCreated, promptSession,
                 promptAfterClose, sent, closePc, destroyCalls, destroyed, clientStops>>
  /\ UNCHANGED notAiVars

\* session.sendAndWait({prompt}) on the session ensureSession() returned
\* (line 44)
SendPrompt(p) ==
  /\ promptPc[p] = "ensured"
  /\ sent' = Append(sent, [call |-> p, session |-> promptSession[p],
                           afterClose |-> promptAfterClose[p],
                           onDestroyed |-> promptSession[p] \in destroyed])
  /\ promptPc' = [promptPc EXCEPT ![p] = "done"]
  /\ UNCHANGED <<session, clientStarts, sessionsCreated, promptSession,
                 promptAfterClose, closePc, destroyCalls, destroyed, clientStops>>
  /\ UNCHANGED notAiVars

\* close() is called: the session, if there is one, has destroy() called;
\* else client.stop() is called (lines 52-55)
CloseCall(c) ==
  /\ closePc[c].at = "idle"
  /\ IF session # 0
       THEN /\ destroyCalls' = Append(destroyCalls, session)
            /\ closePc' = [closePc EXCEPT ![c] = [at |-> "destroying", target |-> session]]
            /\ UNCHANGED clientStops
       ELSE /\ clientStops' = clientStops + 1
            /\ closePc' = [closePc EXCEPT ![c] = [at |-> "stopping", target |-> 0]]
            /\ UNCHANGED destroyCalls
  /\ UNCHANGED <<session, clientStarts, sessionsCreated, promptPc, promptSession,
                 promptAfterClose, sent, destroyed>>
  /\ UNCHANGED notAiVars

\* destroy() resolved: client.stop() is called (lines 53-55)
DestroyResolved(c) ==
  /\ closePc[c].at = "destroying"
  /\ destroyed' = destroyed \cup {closePc[c].target}
  /\ clientStops' = clientStops + 1
  /\ closePc' = [closePc EXCEPT ![c].at = "stopping"]
  /\ UNCHANGED <<session, clientStarts, sessionsCreated, promptPc, promptSession,
                 promptAfterClose, sent, destroyCalls>>
  /\ UNCHANGED notAiVars

\* client.stop() resolved: close() is done
StopResolved(c) ==
  /\ closePc[c].at = "stopping"
  /\ closePc' = [closePc EXCEPT ![c].at = "done"]
  /\ UNCHANGED <<session, clientStarts, sessionsCreated, promptPc, promptSession,
                 promptAfterClose, sent, destroyCalls, destroyed, clientStops>>
  /\ UNCHANGED notAiVars

AIServiceNext ==
  \/ \E p \in 1..MaxPrompts : PromptCall(p)
  \/ \E p \in 1..MaxPrompts : StartResolved(p)
  \/ \E p \in 1..MaxPrompts : SessionCreated(p)
  \/ \E p \in 1..MaxPrompts : EnsureRejected(p)
  \/ \E p \in 1..MaxPrompts : SendPrompt(p)
  \/ \E c \in 1..MaxCloses : CloseCall(c)
  \/ \E c \in 1..MaxCloses : DestroyResolved(c)
  \/ \E c \in 1..MaxCloses : StopResolved(c)

AIServiceSpec == AIServiceInit /\ [][AIServiceNext]_vars

(***************************************************************************)
(* The development wrapper (src/dev-wrapper.ts).                           *)
(***************************************************************************)
MaxArgs == 2

MaxWrapperRuns == 2

\* line 8
commands ==
  { <<"s", "e", "a", "r", "c", "h">>,
    <<"c", "o", "n", "f", "i", "g">>,
    <<"a", "u", "t", "h">>,
    <<"h", "e", "l", "p">>,
    <<"-", "-", "h", "e", "l", "p">>,
    <<"-", "h">>,
    <<"-", "V">>,
    <<"-", "-", "v", "e", "r", "s", "i", "o", "n">>,
    <<"-", "m">>,
    <<"-", "-", "m", "o", "d", "e", "l">> }

\* arguments given to `bun dev`: known commands, a flag the list does not
\* name, a phrase, the empty text
ArgValues ==
  { <<"s", "e", "a", "r", "c", "h">>,
    <<"c", "o", "n", "f", "i", "g">>,
    <<"h", "e", "l", "p">>,
    <<"-", "-", "h", "e", "l", "p">>,
    <<"-", "x">>,
    <<"f", "o", "o">>,
    <<>> }

\* text.startsWith(prefix)
StartsWith(text, prefix) ==
  Len(text) >= Len(prefix) /\ SubSeq(text, 1, Len(prefix)) = prefix

\* wrapperArgs without the test for a leading '-'
wrapperArgsNoFlagTest(given) ==
  LET unshifted == IF Len(given) > 0 /\ given[1] \notin commands
                     THEN <<<<"s", "e", "a", "r", "c", "h">>>> \o given
                     ELSE given
  IN IF Len(unshifted) = 0 THEN Append(unshifted, <<"-", "-", "h", "e", "l", "p">>) ELSE unshifted

\* lines 11-18: args after the two rewrites
wrapperArgs(given) ==
  LET unshifted == IF Len(given) > 0 /\ given[1] \notin commands
                        /\ ~StartsWith(given[1], <<"-">>)
                     THEN <<<<"s", "e", "a", "r", "c", "h">>>> \o given
                     ELSE given
  IN IF Len(unshifted) = 0 THEN Append(unshifted, <<"-", "-", "h", "e", "l", "p">>) ELSE unshifted

\* process.argv.slice(2)
Slice2(argvGiven) == SubSeq(argvGiven, 3, Len(argvGiven))

WrapperInit ==
  /\ SearchIdle
  /\ BannerIdle
  /\ SetupIdle
  /\ AIServiceNew
  /\ originalArgs \in SeqsUpTo(ArgValues, MaxArgs)
  /\ processArgv = <<<<"b", "u", "n">>, <<"d", "e", "v", "-", "w", "r", "a", "p", "p", "e", "r", ".", "t", "s">>>> \o originalArgs
  /\ args = <<>>
  /\ wrapperRuns = 0

\* lines 7-21, run on the process.argv the previous run left
DevWrapper ==
  /\ wrapperRuns < MaxWrapperRuns
  /\ args' = wrapperArgs(Slice2(processArgv))
  /\ processArgv' = <<<<"b", "u", "n">>, <<"c", "o", "n", "f", "l", "u", "e", "n", "c", "e", "-", "s", "e", "a", "r", "c", "h">>>> \o args'
  /\ wrapperRuns' = wrapperRuns + 1
  /\ UNCHANGED originalArgs
  /\ UNCHANGED notWrapperVars

WrapperNext == DevWrapper

WrapperSpec == WrapperInit /\ [][WrapperNext]_vars

(***************************************************************************)
(* Properties of the search pipeline.                                      *)
(***************************************************************************)
PipelineStages ==
  <<"validating-config", "building-query", "awaiting-response", "mapping",
    "rendering", "done">>

StageIndex(s) == CHOOSE i \in 1..Len(PipelineStages) : PipelineStages[i] = s

RunningStages == {PipelineStages[i] : i \in 1..(Len(PipelineStages) - 1)}

IsFailureHeading(e) == e.ch = "spinner.fail"

\* the failure headings written so far
FailureHeadings == SelectSeq(out, IsFailureHeading)

IsResultOutput(e) == e.ch \in {"banner", "table"}

\* the failure kind a heading names; the catch block's heading names none
KindOfHeading(h) ==
  CASE h = "Confluence not configured" -> "ConfigurationMissing"
    [] h = "Authentication failed" -> "AuthenticationFailed"
    [] h = "Not found" -> "ResourceNotFound"
    [] h = "Search failed" -> "HttpError"
    [] OTHER -> "Unclassified"

TokenPresent == env.ATLASSIAN_API_TOKEN \notin {Unset, Some("")}

EmailPresent == env.ATLASSIAN_EMAIL \notin {Unset, Some("")}

\* a body that is JSON and that the mapping accepts: no results array or an
\* array whose entries carry no timestamp that is not a date
BodyIsWellFormed(b) ==
  \/ b.kind = "noresults"
  \/ /\ b.kind = "array"
     /\ \A i \in 1..Len(b.results) :
          LET v == b.results[i].version
          IN v = Unset \/ Get(v).when = Unset \/ Get(Get(v).when).kind \in {"iso", "empty"}

\* C1: the stages are passed in the order validating-config, building-query,
\* awaiting-response, mapping, rendering, done; a failure moves from a stage
\* to reported-error; once in reported-error or done nothing changes any
\* more (no later stage, no re-entry, no retry), every failure ends in
\* reported-error, and a failure is reported at most once.
C1_LinearPipeline ==
  [][ /\ pc' # pc =>
           \/ pc = "cli" /\ pc' = "validating-config"
           \/ pc \in RunningStages /\ pc' = PipelineStages[StageIndex(pc) + 1]
           \/ pc \in RunningStages /\ pc' = "reported-error" /\ cause' # "none"
      /\ pc \in {"reported-error", "done"} => UNCHANGED vars
      /\ cause' # "none" => pc' = "reported-error"
      /\ Len(SelectSeq(out', IsFailureHeading)) <= 1
      /\ Len(requests') <= 1 ]_vars

\* a run that passed every stage and rendered a table
C1_Witness == pc = "done" /\ results # <<>> /\ bodyRead /\ Len(requests) = 1

\* C2: when the process has ended, its exit status is 0 exactly when an ok
\* (2xx) response was received whose body was read and is well formed (zero
\* results included), and it is 1 after every failure.
C2_ExitStatus ==
  exited =>
    /\ exitCode \in {0, 1}
    /\ exitCode = 0 <=>
         (response.status \in 200..299 /\ bodyRead /\ BodyIsWellFormed(response.body))
    /\ exitCode = 0 <=> pc = "done"
    /\ exitCode = 1 <=> cause # "none"

\* zero-result success
C2_Witness ==
  /\ exited /\ exitCode = 0 /\ results = <<>>
  /\ response.status = 200 /\ response.body.kind = "array"

\* C3: a response with status 401 is reported as AuthenticationFailed, 404 as
\* ResourceNotFound, any other status outside 200..299 as HttpError with that
\* status and status text; the exit status is 1 and the body is neither
\* parsed nor mapped.
C3_HttpStatusClassification ==
  (response # NoResponse /\ response.status \notin 200..299) =>
    /\ pc = "reported-error" /\ exited /\ exitCode = 1
    /\ ~bodyRead /\ results = <<>>
    /\ Len(FailureHeadings) = 1
    /\ KindOfHeading(FailureHeadings[1].text) =
         (IF response.status = 401 THEN "AuthenticationFailed"
          ELSE IF response.status = 404 THEN "ResourceNotFound" ELSE "HttpError")
    /\ response.status \notin {401, 404} =>
         /\ out[Len(out)].text = "HTTP"
         /\ out[Len(out)].status = response.status
         /\ out[Len(out)].statusText = response.statusText

\* a 500 answer that carries a results array
C3_Witness ==
  /\ pc = "reported-error" /\ response.status = 500 /\ response.statusText = "Reason"
  /\ response.body.kind = "array" /\ response.body.results # <<>>

\* C4 as stated: every invocation that ends has made exactly one request.
C4_ExactlyOneRequest == exited => (Len(requests) = 1 /\ inflight = 0)

\* C4, amended: at most one request is made and at most one is in flight, it
\* is in flight exactly while the pipeline awaits the response and is settled
\* before the process ends; an invocation ends without a request exactly when
\* it failed while validating the configuration or building the query.
C4_AtMostOneRequest ==
  /\ Len(requests) <= 1
  /\ inflight \in {0, 1}
  /\ inflight = 1 <=> pc = "awaiting-response"
  /\ pc \in {"awaiting-response", "mapping", "rendering", "done"} => Len(requests) = 1
  /\ exited =>
       /\ inflight = 0
       /\ Len(requests) = 0 <=> failedAt \in {"validating-config", "building-query"}

\* a run that ended after its one request was answered
C4_Witness == exited /\ Len(requests) = 1 /\ inflight = 0 /\ response # NoResponse

\* C5: with the token or the email absent the pipeline reports
\* ConfigurationMissing, exits with status 1, sends no request and renders no
\* results; a request is sent only when both are present.
C5_ConfigurationMissing ==
  /\ ((~TokenPresent \/ ~EmailPresent) /\ pc \notin {"cli", "validating-config"}) =>
       /\ pc = "reported-error" /\ exited /\ exitCode = 1
       /\ requests = <<>> /\ inflight = 0
       /\ SelectSeq(out, IsResultOutput) = <<>>
       /\ Len(FailureHeadings) = 1
       /\ KindOfHeading(FailureHeadings[1].text) = "ConfigurationMissing"
  /\ requests # <<>> => (configured /\ TokenPresent /\ EmailPresent)

\* the token is set and the email is not
C5_Witness ==
  /\ pc = "reported-error" /\ cause = "ConfigurationMissing"
  /\ TokenPresent /\ ~EmailPresent

\* C6: isConfluenceConfigured() returns true exactly when the token and the
\* email are both present and non-empty, whatever ATLASSIAN_URL is.
C6_IsConfigured ==
  pc \notin {"cli", "validating-config"} =>
    /\ configured <=> (TokenPresent /\ EmailPresent)
    /\ \A u \in UrlValues :
         isConfluenceConfigured([env EXCEPT !.ATLASSIAN_URL = u]) = configured

\* configured although no base URL override is set
C6_Witness ==
  /\ pc = "building-query" /\ configured
  /\ env.ATLASSIAN_URL = Unset

FailureTaxonomy ==
  {"InvalidInput", "ConfigurationMissing", "AuthenticationFailed",
   "ResourceNotFound", "HttpError", "NetworkFailure", "ParseFailure"}

\* C7 as stated: every failure of the taxonomy is reported once, under a
\* classification that names its kind.
C7_EveryKindNamed ==
  (pc = "reported-error" /\ cause \in FailureTaxonomy) =>
    /\ Len(FailureHeadings) = 1
    /\ KindOfHeading(FailureHeadings[1].text) = cause

\* C7, amended: every failure the pipeline detects is reported exactly once,
\* as one heading followed by one message that ends the output.  The
\* headings of ConfigurationMissing, AuthenticationFailed, ResourceNotFound
\* and HttpError name the kind; every thrown error (a rejected fetch, a body
\* that cannot be read or mapped, a base URL that is no URL) is reported
\* under the one heading "Search error" with the error's message.
C7_ReportedOnce ==
  pc = "reported-error" =>
    /\ Len(FailureHeadings) = 1
    /\ Len(out) >= 2
    /\ out[Len(out) - 1] = FailureHeadings[1]
    /\ out[Len(out)].ch \in {"console.log", "console.error"}
    /\ cause \in {"ConfigurationMissing", "AuthenticationFailed", "ResourceNotFound", "HttpError"}
         <=> KindOfHeading(FailureHeadings[1].text) = cause
    /\ cause \in {"NetworkFailure", "ParseFailure", "InvalidUrl"}
         <=> (FailureHeadings[1].text = "Search error" /\ out[Len(out)].ch = "console.error")

\* a body that is not JSON, reported under the catch block's heading
C7_Witness ==
  /\ pc = "reported-error" /\ cause = "ParseFailure"
  /\ response.body.kind = "nonjson"
  /\ FailureHeadings[1].text = "Search error"

RECURSIVE TrimEnd(_)
TrimEnd(s) == IF s # <<>> /\ s[Len(s)] = " " THEN TrimEnd(SubSeq(s, 1, Len(s) - 1)) ELSE s

Trim(s) == TrimEnd(SkipWs(s))

\* C9: a search whose phrase is empty after trimming sends no request and
\* ends with a nonzero exit status.
C9_EmptyPhraseRejected ==
  Trim(argv.phrase) = <<>> =>
    /\ requests = <<>>
    /\ exited => exitCode # 0

\* C10: the limit parameter of every request sent is the decimal text of an
\* integer >= 1, and it is 10 when no --limit is given.
C10_LimitAtLeastOne ==
  \A i \in 1..Len(requests) :
    LET n == parseInt(requests[i].limit)
    IN /\ ~n.nan
       /\ n.val >= 1
       /\ NumberToString(n.val) = requests[i].limit
       /\ argv.limit = Unset => n.val = 10

(***************************************************************************)
(* The request on the wire, as the service reads it.                       *)
(***************************************************************************)
\* largest --limit text the properties below enumerate
MaxLimit == 30

HexVal(c) == (CHOOSE i \in 1..16 : HexDigits[i] = c) - 1

CharOfCode(n) == CHOOSE c \in DOMAIN CharCode : CharCode[c] = n

\* decoding of an application/x-www-form-urlencoded value
RECURSIVE FormDecode(_)
FormDecode(s) ==
  IF s = <<>> THEN <<>>
  ELSE IF Head(s) = "+" THEN <<" ">> \o FormDecode(Tail(s))
  ELSE IF Head(s) = "%" /\ Len(s) >= 3
    THEN <<CharOfCode(HexVal(s[2]) * 16 + HexVal(s[3]))>> \o FormDecode(SubSeq(s, 4, Len(s)))
  ELSE <<Head(s)>> \o FormDecode(Tail(s))

\* the text before the first separator, and the text after it
RECURSIVE UpTo(_, _)
UpTo(s, sep) ==
  IF s = <<>> \/ Head(s) = sep THEN <<>> ELSE <<Head(s)>> \o UpTo(Tail(s), sep)

After(s, sep) == SubSeq(s, Len(UpTo(s, sep)) + 2, Len(s))

\* the name=value pairs of a query, decoded, in order
RECURSIVE QueryPairs(_)
QueryPairs(q) ==
  IF q = <<>> THEN <<>>
  ELSE LET pair == UpTo(q, "&")
       IN <<<<FormDecode(UpTo(pair, "=")), FormDecode(After(pair, "="))>>>>
            \o QueryPairs(After(q, "&"))

\* the --limit text is the decimal text of an integer >= 1
LimitIsGiven == \E n \in 1..MaxLimit : argv.limit = Some(NumberToString(n))

\* C11: for a phrase that is not empty and a given limit >= 1, the query of
\* the request decodes to exactly the parameters cql, limit and expand, in
\* that order, where cql is type=page AND text~"<phrase>" with the phrase
\* verbatim between the quotes, limit is the given limit and expand is
\* space,history,version.
C11_RequestParameters ==
  \A i \in 1..Len(requests) :
    (Trim(argv.phrase) # <<>> /\ LimitIsGiven) =>
      /\ QueryPairs(requests[i].query) =
           << << <<"c", "q", "l">>,
                 <<"t", "y", "p", "e", "=", "p", "a", "g", "e", " ", "A", "N", "D", " ",
                   "t", "e", "x", "t", "~", "\"">> \o argv.phrase \o <<"\"">> >>,
              << <<"l", "i", "m", "i", "t">>, Get(argv.limit) >>,
              << <<"e", "x", "p", "a", "n", "d">>,
                 <<"s", "p", "a", "c", "e", ",", "h", "i", "s", "t", "o", "r", "y", ",",
                   "v", "e", "r", "s", "i", "o", "n">> >> >>
      /\ requests[i].cql = QueryPairs(requests[i].query)[1][2]
      /\ requests[i].limit = Get(argv.limit)

\* a request for a phrase with characters that need encoding, limit 25
C11_Witness ==
  /\ Len(requests) = 1
  /\ argv.phrase = <<"a", "&", "b", "=", "\"">>
  /\ argv.limit = Some(<<"2", "5">>)

(***************************************************************************)
(* Properties of the ResultMapper and of the TableRenderer.                *)
(***************************************************************************)
IsTable(e) == e.ch = "table"

IsBanner(e) == e.ch = "banner"

IsNoDocuments(e) ==
  e.ch = "console.log" /\ e.text = "No documents found matching your search."

\* the entries of the results array of the response (none when it is absent)
RawResults == response.body.results

\* C12: after an ok response with a well-formed body of N entries the output
\* holds one table with exactly N rows (and one banner) when N > 0; when
\* N = 0, results array empty or absent, it holds no table and no banner but
\* the "no documents found" message, and the exit status is 0.
C12_RowsPerEntry ==
  (exited /\ response.status \in 200..299 /\ BodyIsWellFormed(response.body)) =>
    IF Len(RawResults) > 0
      THEN /\ Len(SelectSeq(out, IsTable)) = 1
           /\ Len(SelectSeq(out, IsTable)[1].rows) = Len(RawResults)
           /\ Len(SelectSeq(out, IsBanner)) = 1
           /\ SelectSeq(out, IsBanner)[1].n = Len(RawResults)
           /\ SelectSeq(out, IsNoDocuments) = <<>>
           /\ exitCode = 0
      ELSE /\ SelectSeq(out, IsTable) = <<>>
           /\ SelectSeq(out, IsBanner) = <<>>
           /\ Len(SelectSeq(out, IsNoDocuments)) = 1
           /\ exitCode = 0

\* two entries rendered as two rows
C12_Witness ==
  /\ pc = "done" /\ Len(RawResults) = 2
  /\ Len(SelectSeq(out, IsTable)[1].rows) = 2

\* what a terminal shows of a text: everything outside the OSC 8 sequences,
\* each of which runs from its introducer to the next terminator
RECURSIVE VisibleFrom(_, _)
VisibleFrom(s, inOsc) ==
  IF s = <<>> THEN <<>>
  ELSE IF inOsc
    THEN VisibleFrom(Tail(s), Head(s) \notin {"\\x07", "\\x1b\\"})
  ELSE IF Head(s) = "\\x1b]8;;" THEN VisibleFrom(Tail(s), TRUE)
  ELSE <<Head(s)>> \o VisibleFrom(Tail(s), FALSE)

VisibleText(s) == VisibleFrom(s, FALSE)

\* the rows of the table written, none when no table was written
TableRowsWritten ==
  IF SelectSeq(out, IsTable) = <<>> THEN <<>> ELSE SelectSeq(out, IsTable)[1].rows

\* C13: with titleWidth = 60, the title shown in a row is the first
\* titleWidth - 4 - 3 characters of the result's title followed by "..."
\* when the title is longer than titleWidth - 4 characters, and the title
\* itself otherwise; it is never longer than titleWidth - 4 characters.
C13_TitleTruncation ==
  /\ titleWidth = 60
  /\ \A i \in 1..Len(TableRowsWritten) :
       LET title == results[i].title
           shown == VisibleText(TableRowsWritten[i][1])
       IN /\ Len(title) > titleWidth - 4 =>
               shown = SubSeq(title, 1, titleWidth - 4 - 3) \o <<".", ".", ".">>
          /\ Len(title) <= titleWidth - 4 => shown = title
          /\ Len(shown) <= titleWidth - 4

\* a table with a title of 57 characters and a title of exactly 56
C13_Witness ==
  /\ Len(TableRowsWritten) = 2
  /\ Len(results[1].title) = 57 /\ Len(results[2].title) = 56
  /\ Len(VisibleText(TableRowsWritten[1][1])) = 56

\* values of the untrusted _links.webui of an entry
WebuiValues == {Unset, Some("/spaces/ENG/pages/101"), Some("javascript:alert(1)")}

\* the entries with their _links.webui replaced, entry i by f[i]
WithWebui(items, f) == [i \in 1..Len(items) |-> [items[i] EXCEPT !.webui = f[i]]]

\* the results have been mapped
Mapped == pc \in {"rendering", "done"}

\* C14: the url of every result is the base URL without its trailing slash
\* followed by the page path and the entry's id, whatever the entry's other
\* fields are; a payload that differs only in the _links.webui of its
\* entries is mapped to the same result list.
C14_UrlFromBaseAndId ==
  (Mapped /\ Len(RawResults) > 0) =>
    /\ \A i \in 1..Len(results) :
         /\ results[i].url =
              StripTrailingSlash(getConfluenceUrl(env))
                \o <<"/pages/viewpage.action?pageId=", RawResults[i].id>>
         /\ \A other \in RawItems :
              ~MapThrows(other) =>
                MapItem([other EXCEPT !.id = RawResults[i].id], getConfluenceUrl(env)).url
                  = results[i].url
    /\ \A f \in [1..Len(RawResults) -> WebuiValues] :
         MapResults([kind |-> "array", results |-> WithWebui(RawResults, f)],
                    getConfluenceUrl(env)) = results

\* results mapped from entries of which one carries a link that is no path
C14_Witness ==
  /\ Mapped /\ Len(results) = 2
  /\ RawResults[1].webui = Some("javascript:alert(1)")
  /\ RawResults[2].webui = Unset

\* the display name of the author of an entry's version is absent or empty
NoDisplayName(item) ==
  \/ item.version = Unset
  \/ Get(item.version).by = Unset
  \/ Get(Get(item.version).by).displayName \in {Unset, Some("")}

\* C15: the title of a result is "Untitled" when the entry's title is absent
\* or empty and the entry's title otherwise; updatedBy is "Unknown" when the
\* display name of the version's author is absent or empty and that display
\* name otherwise.
C15_TitleAndAuthorDefaults ==
  Mapped =>
    \A i \in 1..Len(results) :
      /\ results[i].title =
           IF RawResults[i].title \in {Unset, Some(<<>>)}
             THEN <<"U", "n", "t", "i", "t", "l", "e", "d">>
             ELSE Get(RawResults[i].title)
      /\ results[i].updatedBy =
           IF NoDisplayName(RawResults[i]) THEN "Unknown"
           ELSE Get(Get(Get(RawResults[i].version).by).displayName)

\* an entry with an empty title and an empty display name mapped next to one
\* that has both
C15_Witness ==
  /\ Mapped /\ Len(results) = 2
  /\ RawResults[1].title = Some(<<>>) /\ results[1].title = <<"U", "n", "t", "i", "t", "l", "e", "d">>
  /\ DisplayNameOf(RawResults[1]) = Some("") /\ results[1].updatedBy = "Unknown"
  /\ results[2].title = <<"D", "o", "c">> /\ results[2].updatedBy = "Ann"

\* text of the form YYYY-MM-DD
IsCalendarDate(s) ==
  /\ Len(s) = 10
  /\ \A k \in {1, 2, 3, 4, 6, 7, 9, 10} : IsDigit(s[k])
  /\ s[5] = "-" /\ s[8] = "-"

\* the version timestamp of an entry is absent (an empty text counts as absent)
NoTimestamp(item) ==
  \/ item.version = Unset
  \/ Get(item.version).when = Unset
  \/ Get(Get(item.version).when).kind = "empty"

\* C16: the updatedDate of every result is a date of the form YYYY-MM-DD, or
\* "N/A" exactly when the entry's version timestamp is absent.
C16_DateOrSentinel ==
  Mapped =>
    \A i \in 1..Len(results) :
      /\ IsCalendarDate(results[i].updatedDate) \/ results[i].updatedDate = <<"N", "/", "A">>
      /\ results[i].updatedDate = <<"N", "/", "A">> <=> NoTimestamp(RawResults[i])

RECURSIVE TakeUntil(_, _)
TakeUntil(s, stops) ==
  IF s = <<>> \/ Head(s) \in stops THEN <<>> ELSE <<Head(s)>> \o TakeUntil(Tail(s), stops)

\* the target of the OSC 8 hyperlink a cell opens with
LinkTarget(cell) ==
  IF cell # <<>> /\ Head(cell) = "\\x1b]8;;"
    THEN TakeUntil(Tail(cell), {"\\x07", "\\x1b\\"})
    ELSE <<>>

\* C17: the result list has as many elements as the payload has entries and
\* its i-th element comes from the i-th entry; the table written has one row
\* per result, the i-th row showing the i-th result: nothing is re-sorted,
\* filtered out or de-duplicated.
C17_OrderAndCount ==
  Mapped =>
    /\ Len(results) = Len(RawResults)
    /\ \A i \in 1..Len(results) :
         /\ results[i].id = RawResults[i].id
         /\ results[i] = MapItem(RawResults[i], getConfluenceUrl(env))
    /\ (pc = "done" /\ Len(results) > 0) =>
         /\ Len(TableRowsWritten) = Len(results)
         /\ \A i \in 1..Len(results) :
              /\ LinkTarget(TableRowsWritten[i][1]) = results[i].url
              /\ TableRowsWritten[i][2] = results[i].spaceKey
              /\ TableRowsWritten[i][3] = results[i].updatedBy
              /\ TableRowsWritten[i][4] = results[i].updatedDate

\* two entries received in descending order of id and shown in that order
C17_Witness ==
  /\ pc = "done" /\ Len(RawResults) = 2
  /\ RawResults[1].id = "105" /\ RawResults[2].id = "101"
  /\ Len(TableRowsWritten) = 2
  /\ TableRowsWritten[1][3] = "Unknown" /\ TableRowsWritten[2][3] = "Ann"

(***************************************************************************)
(* The Authorization header.                                               *)
(***************************************************************************)
\* the value of each base64 character
B64Values ==
  [c \in {B64Chars[i] : i \in 1..Len(B64Chars)} |->
     (CHOOSE i \in 1..Len(B64Chars) : B64Chars[i] = c) - 1]

B64Index(c) == B64Values[c]

\* the bytes a base64 text stands for
RECURSIVE Base64Decode(_)
Base64Decode(s) ==
  IF s = <<>> THEN <<>>
  ELSE LET a == B64Index(s[1])
           b == B64Index(s[2])
       IN IF s[3] = "=" THEN <<(a * 4) + (b \div 16)>>
          ELSE IF s[4] = "="
            THEN <<(a * 4) + (b \div 16), ((b % 16) * 16) + (B64Index(s[3]) \div 4)>>
          ELSE <<(a * 4) + (b \div 16),
                 ((b % 16) * 16) + (B64Index(s[3]) \div 4),
                 ((B64Index(s[3]) % 4) * 64) + B64Index(s[4])>>
                 \o Base64Decode(SubSeq(s, 5, Len(s)))

\* the bytes of username:token
CredentialBytes(username, token) == Utf8[username] \o <<58>> \o Utf8[token]

\* the header is Basic followed by the base64 text of username:token
IsBasicOf(header, username, token) ==
  /\ header # <<>> /\ Head(header) = "Basic "
  /\ Base64Decode(Tail(header)) = CredentialBytes(username, token)

\* C19 as stated: the Authorization header of every request sent is Basic
\* followed by the base64 text of username:token, the username being the
\* configured one or "user" when it is unset; and a run with only the token
\* configured sends a request with the "user" fallback.
C19_UserFallbackSent ==
  /\ \A k \in 1..Len(requests) :
       IsBasicOf(requests[k].authorization,
                 IF EmailPresent THEN Get(env.ATLASSIAN_EMAIL) ELSE "user",
                 getConfluenceToken(env))
  /\ (exited /\ TokenPresent /\ ~EmailPresent) =>
       /\ requests # <<>>
       /\ IsBasicOf(requests[1].authorization, "user", getConfluenceToken(env))

\* C19 (amended): the Authorization header of every request sent is Basic
\* followed by the base64 text of username:token, the username being the
\* configured, non-empty ATLASSIAN_EMAIL.  The header is built with "user"
\* in place of an empty username, but no request is sent with it: a run with
\* only the token configured sends no request.
C19_AuthorizationHeader ==
  /\ \A k \in 1..Len(requests) :
       /\ EmailPresent /\ TokenPresent
       /\ IsBasicOf(requests[k].authorization,
                    Get(env.ATLASSIAN_EMAIL), Get(env.ATLASSIAN_API_TOKEN))
       /\ ~IsBasicOf(requests[k].authorization, "user", Get(env.ATLASSIAN_API_TOKEN))
  /\ (TokenPresent /\ ~EmailPresent) => requests = <<>>
  /\ pc = "validating-config" =>
     IsBasicOf(<<"Basic ">> \o authString(getConfluenceUsername(env), getConfluenceToken(env)),
                 IF EmailPresent THEN Get(env.ATLASSIAN_EMAIL) ELSE "user",
                 getConfluenceToken(env))

\* a request sent with the header of ann@example.com:s3cret
C19_Witness ==
  /\ requests # <<>>
  /\ requests[1].authorization =
       <<"Basic ">> \o
       <<"Y", "W", "5", "u", "Q", "G", "V", "4", "Y", "W", "1", "w",
         "b", "G", "U", "u", "Y", "2", "9", "t", "O", "n", "M", "z", "Y", "3", "J", "l", "d", "A", "=", "=">>

(***************************************************************************)
(* The hyperlink decoration of the title cells.                            *)
(***************************************************************************)
\* the title as the title column shows it
ShownTitle(title) ==
  IF Len(title) > titleWidth - 4
    THEN SubSeq(title, 1, titleWidth - 4 - 3) \o <<".", ".", ".">>
    ELSE title

\* C20 as stated: every title cell written is ESC ] 8 ; ; URL ESC \ followed
\* by the truncated title followed by ESC ] 8 ; ; ESC \, URL being the url of
\* the row's result.
C20_TerminatedByST ==
  \A i \in 1..Len(TableRowsWritten) :
    TableRowsWritten[i][1] =
      <<"\\x1b]8;;">> \o results[i].url \o <<"\\x1b\\">>
        \o ShownTitle(results[i].title) \o <<"\\x1b]8;;", "\\x1b\\">>

\* C20 (amended): every title cell written is ESC ] 8 ; ; URL BEL followed
\* by the truncated title followed by ESC ] 8 ; ; BEL: the title is truncated
\* first and decorated afterwards, the link target is the url of the row's
\* own result, and the visible text is exactly the truncated title, so the
\* decoration adds no visible character.
C20_HyperlinkDecoration ==
  \A i \in 1..Len(TableRowsWritten) :
    LET cell == TableRowsWritten[i][1]
    IN /\ cell = <<"\\x1b]8;;">> \o results[i].url \o <<"\\x07">>
                   \o ShownTitle(results[i].title) \o <<"\\x1b]8;;", "\\x07">>
       /\ LinkTarget(cell) = results[i].url
       /\ VisibleText(cell) = ShownTitle(results[i].title)
       /\ Len(VisibleText(cell)) = Len(ShownTitle(results[i].title))

\* a table whose first row has a truncated title and whose second has not,
\* each linked to its own page
C20_Witness ==
  /\ pc = "done" /\ Len(TableRowsWritten) = 2
  /\ results[1].title = LongTitle /\ results[2].title = <<"D", "o", "c">>
  /\ Head(TableRowsWritten[1][1]) = "\\x1b]8;;"
  /\ LinkTarget(TableRowsWritten[1][1]) # LinkTarget(TableRowsWritten[2][1])

(***************************************************************************)
(* The summary banner.                                                     *)
(***************************************************************************)
\* the place of the title in the line: its 0-based left offset
TitleOffset == (bannerWidth \div 2) - (Len(titleText(resultCount)) \div 2)

\* title and time fit: there is room for the title at its offset, a space,
\* the time and the closing space
TitleAndTimeFit ==
  TitleOffset + Len(titleText(resultCount)) + 1 + Len(currentTime) + 1 <= bannerWidth

\* C21: the banner width is the sum of the four column widths plus 3; in the
\* line the title starts at left offset floor(width/2) - floor(length/2),
\* after at least one space of padding beyond the leading space; at least
\* one space separates title and time, which is followed by one closing
\* space; and when title and time fit the line is exactly as wide as the
\* banner.
C21_BannerLayout ==
  styledLine # <<>> =>
    LET title == titleText(resultCount)
        last == TitleOffset + Len(title)
        gap == Len(styledLine) - 1 - Len(currentTime) - last
    IN /\ bannerWidth = 60 + 8 + 18 + 12 + 3
       /\ TitleOffset >= 2
       /\ \A k \in 1..TitleOffset : styledLine[k] = " "
       /\ SubSeq(styledLine, TitleOffset + 1, last) = title
       /\ gap >= 1
       /\ \A k \in (last + 1)..(last + gap) : styledLine[k] = " "
       /\ SubSeq(styledLine, last + gap + 1, last + gap + Len(currentTime)) = currentTime
       /\ styledLine[Len(styledLine)] = " "
       /\ TitleAndTimeFit => Len(styledLine) = bannerWidth

\* the line of 10 results at a time text of 11 characters, as wide as the
\* banner
C21_Witness ==
  /\ resultCount = 10 /\ Len(currentTime) = 11
  /\ styledLine # <<>> /\ Len(styledLine) = bannerWidth
  /\ TitleAndTimeFit

(***************************************************************************)
(* The progress indicator.                                                 *)
(***************************************************************************)
\* a result, the "no documents" message or an error message
IsMessage(e) == e.ch \in {"console.log", "console.error", "banner", "table"}

IsSpinnerStart(e) == e.ch = "spinner.start"

IsSpinnerFail(e) == e.ch = "spinner.fail"

SpinnerInvariant ==
  /\ (inflight > 0 \/ pc \in {"awaiting-response", "mapping"}) => spinner = "spinning"
  /\ requests # <<>> => SelectSeq(out, IsSpinnerStart) # <<>>
  /\ ~isConfluenceConfigured(env) =>
       /\ spinner # "spinning"
       /\ SelectSeq(out, IsSpinnerStart) = <<>>
  /\ \A k \in 1..Len(out) :
       IsMessage(out[k]) =>
         \/ spinner = "stopped"
         \/ \E j \in 1..(k - 1) : IsSpinnerFail(out[j])
  /\ exited => spinner \in {"stopped", "failed"}

\* a step that writes a message while the spinner is not failed finds the
\* spinner already stopped
SpinnerStoppedFirst ==
  (Len(out') > Len(out) /\ IsMessage(out'[Len(out')]) /\ spinner' # "failed")
    => spinner = "stopped"

\* C22: the spinner spins while the request is pending and the body is read;
\* it is started before the request is issued and never when the
\* configuration is missing; every result, "no documents" message and error
\* message is written after the spinner was stopped or failed, and the
\* process ends with the spinner stopped or failed.
C22_SpinnerCoversRequest == []SpinnerInvariant /\ [][SpinnerStoppedFirst]_vars

\* a run that wrote its table with the spinner started and stopped
C22_Witness ==
  /\ pc = "done" /\ spinner = "stopped"
  /\ SelectSeq(out, IsSpinnerStart) # <<>>
  /\ SelectSeq(out, IsTable) # <<>>

(***************************************************************************)
(* The configuration during a run.                                         *)
(***************************************************************************)
\* the base the URL of a request was built on
RequestBase(req) == SubSeq(req.url, 1, Len(req.url) - 1)

\* the request URL and every result url are built on one base URL
OneBaseUrl ==
  \A k \in 1..Len(requests) :
    /\ requests[k].url = RequestBase(requests[k]) \o <<"/rest/api/content/search">>
    /\ RequestBase(requests[k]) = StripTrailingSlash(getConfluenceUrl(env))
    /\ \A i \in 1..Len(results) :
         results[i].url =
           RequestBase(requests[k]) \o <<"/pages/viewpage.action?pageId=", results[i].id>>

\* a step leaves the environment, and so what the ConfigProvider answers, as
\* it was
ConfigUnchanged ==
  /\ env' = env
  /\ getConfluenceUrl(env') = getConfluenceUrl(env)
  /\ getConfluenceToken(env') = getConfluenceToken(env)
  /\ getConfluenceUsername(env') = getConfluenceUsername(env)

\* C23: no step of a search run, successful or failing, changes the base
\* URL, the API token or the username, and the request URL and every result
\* url are built on the same base URL.
C23_ConfigReadOnly == []OneBaseUrl /\ [][ConfigUnchanged]_vars

\* a finished run with its own base URL configured, a request sent and
\* results mapped
C23_Witness ==
  /\ pc = "done" /\ Len(results) = 2 /\ requests # <<>>
  /\ env.ATLASSIAN_URL = Some(<<"https://", "wiki.example", "/">>)
  /\ results[1].url = <<"https://", "wiki.example", "/pages/viewpage.action?pageId=", results[1].id>>

(***************************************************************************)
(* Entries whose timestamp is no date.                                     *)
(***************************************************************************)
\* the version timestamp of an entry is present and cannot be parsed
BadTimestamp(item) ==
  /\ item.version # Unset
  /\ Get(item.version).when # Unset
  /\ Get(Get(item.version).when).kind = "garbage"

\* C24: once the body of an ok response has been read, if one of its entries
\* carries a timestamp that cannot be parsed the run is in reported-error
\* with exit status 1 and has written no banner and no table, whatever the
\* other entries are; no row is ever written for such an entry.
C24_BadTimestampFailsRun ==
  /\ (ResponseOk(response.status) /\ bodyRead /\ response.body.kind = "array"
        /\ \E i \in 1..Len(RawResults) : BadTimestamp(RawResults[i])) =>
       /\ pc = "reported-error" /\ exited /\ exitCode = 1
       /\ SelectSeq(out, IsTable) = <<>>
       /\ SelectSeq(out, IsBanner) = <<>>
       /\ Len(SelectSeq(out, IsSpinnerFail)) = 1
  /\ \A i \in 1..Len(TableRowsWritten) : ~BadTimestamp(RawResults[i])

\* a valid entry followed by one whose timestamp is no date: the run failed
C24_Witness ==
  /\ pc = "reported-error" /\ bodyRead /\ exitCode = 1
  /\ Len(RawResults) = 2
  /\ ~BadTimestamp(RawResults[1]) /\ RawResults[1].id = "101"
  /\ BadTimestamp(RawResults[2])
  /\ SelectSeq(out, IsTable) = <<>>

(***************************************************************************)
(* Properties of the first-run gate and of the setup wizard.               *)
(***************************************************************************)
\* the command is one the gate applies to
Gated == command \notin {"config", "auth"}

\* C25: the action of a command other than config and auth is called only
\* with firstRunComplete true; when firstRunComplete was false the wizard
\* ran first, once, and returned true; after a wizard that returned false
\* the action is not called and the process ends with status 1; for config
\* and auth the wizard is never run.
C25_FirstRunGate ==
  /\ (Gated /\ (actionRan \/ hookPc = "action")) => firstRunComplete
  /\ (Gated /\ actionRan /\ ~completeBefore) =>
       wizardRuns = 1 /\ returned = Some(TRUE)
  /\ (Gated /\ ~completeBefore /\ hookPc # "preAction") => wizardRuns = 1
  /\ returned = Some(FALSE) =>
       /\ ~actionRan /\ hookPc \notin {"action", "done"}
       /\ hookPc \notin {"setup:finally", "hook:return"} => cliExit = Some(1)
  /\ cliExit # Unset => (cliExit = Some(1) /\ ~actionRan)
  /\ ~Gated => (wizardRuns = 0 /\ client = "none" /\ returned = Unset)

\* the search action called after a first run whose wizard succeeded
C25_Witness ==
  /\ command = "search" /\ actionRan
  /\ ~completeBefore /\ firstRunComplete
  /\ wizardRuns = 1 /\ returned = Some(TRUE)

\* what holds of the wizard's result in every state
WizardResult ==
  /\ returned = Some(TRUE) =>
       /\ wizardPath = "success"
       /\ firstRunComplete
       /\ models # <<>> /\ availableModels = models
       /\ \E i \in 1..Len(models) : defaultModel = resolveModel(models[i])
  /\ (wizardRuns = 1 /\ firstRunComplete # completeBefore) => returned = Some(TRUE)
  /\ wizardPath \in {"not-authenticated", "exception"} =>
       /\ returned = Some(FALSE)
       /\ firstRunComplete = completeBefore
  /\ hookPc \in {"setup:finally", "hook:return"} => returned # Unset

\* the step in which the wizard returns true comes after the client
\* reported an authenticated user, stores the selected model and sets
\* firstRunComplete
ReturnsTrueStep ==
  (returned = Unset /\ returned' = Some(TRUE)) =>
    /\ wizardPath = "authenticated" /\ client = "started"
    /\ firstRunComplete' /\ ~firstRunComplete

\* C26: runFirstTimeSetup returns true, and sets firstRunComplete, only when
\* the client reported an authenticated user and a model was selected and
\* stored as the default; when the user is not authenticated and on every
\* exception path it returns false and firstRunComplete is what it was
\* before.
C26_SetupResult == []WizardResult /\ [][ReturnsTrueStep]_vars

\* the write of firstRunComplete threw after the model was stored: false is
\* returned and firstRunComplete is still false
C26_Witness ==
  /\ wizardPath = "exception" /\ returned = Some(FALSE)
  /\ models = <<"Opus">> /\ defaultModel = "claude-opus-4.5"
  /\ ~firstRunComplete /\ ~completeBefore

\* runFirstTimeSetup has been left
WizardLeft == wizardRuns = 1 /\ hookPc \in {"hook:return", "exited", "action", "done"}

\* C29: when runFirstTimeSetup has been left, on whatever path, client.stop()
\* has been called exactly once.
C29_ClientStoppedOnce ==
  WizardLeft => (stopCalls = 1 /\ client = "stopped")

(***************************************************************************)
(* Properties of the AIService.                                            *)
(***************************************************************************)
\* C27: over every interleaving of prompt() calls on one AIService the
\* client is started at most once, at most one session is created, and all
\* prompts are sent on one session.
C27_OneSession ==
  /\ clientStarts <= 1
  /\ sessionsCreated <= 1
  /\ \A i, j \in 1..Len(sent) : sent[i].session = sent[j].session

\* C28: a prompt() called after close() was called is never sent on a
\* session that has been destroyed, and destroy() is not called twice on the
\* same session.
C28_NoUseAfterClose ==
  /\ \A i \in 1..Len(sent) : sent[i].afterClose => ~sent[i].onDestroyed
  /\ \A i, j \in 1..Len(destroyCalls) :
       i # j => destroyCalls[i] # destroyCalls[j]

(***************************************************************************)
(* Properties of the development wrapper.                                  *)
(***************************************************************************)
\* the first argument is a known command or a flag
KnownOrFlag(a) == a \in commands \/ (a # <<>> /\ Head(a) = "-")

WrapperResult ==
  wrapperRuns >= 1 =>
    /\ args # <<>>
    /\ KnownOrFlag(args[1])
    /\ Slice2(processArgv) = args
    /\ IF originalArgs = <<>> THEN args = << <<"-", "-", "h", "e", "l", "p">> >>
       ELSE IF ~KnownOrFlag(originalArgs[1])
         THEN args = << <<"s", "e", "a", "r", "c", "h">> >> \o originalArgs
       ELSE args = originalArgs

\* a run of the wrapper on what a run left changes nothing
SecondRunChangesNothing == wrapperRuns >= 1 => args' = args

====
